---- MODULE Spec2Model ----
(***************************************************************************)
(* kk-slider: the download pipeline of src/download/downloader.rs.         *)
(*                                                                         *)
(* SchedSpec  one scheduling phase: get_all_song_infos (buffered) or       *)
(*            download_all_songs (buffer_unordered) over its work units.   *)
(* PipeSpec   one call of Downloader::download: discovery, metadata        *)
(*            extraction, snapshot and the bulk download, with the worker  *)
(*            download_song reduced to its start and its result.           *)
(* ConfigSpec PipeSpec for a build whose MAX_TRIES is 0 or the source's.   *)
(* PipeFairSpec  PipeSpec where a step that can be taken is taken.         *)
(* ParseSpec  SongInfo::parse_document applied to one document.            *)
(* AudioSpec  parse_document applied to documents that differ in their     *)
(*            audio sources.                                               *)
(* PathSpec   two items of one run downloaded concurrently, and the file   *)
(*            paths their tasks write.                                     *)
(* Spec       one call of Downloader::download_song for one SongInfo: the  *)
(*            loop over the asset kinds, download_song_of_type with its    *)
(*            attempt loop, file creation, streaming write and flush, and  *)
(*            make_request with its retry loop.                            *)
(***************************************************************************)
EXTENDS Integers, Sequences, FiniteSets, TLC

\* downloader.rs:15-16
CONCURRENT_DOWNLOADS == 10
MAX_TRIES == 3

\* Bounds of the model.
MaxKinds == 2       \* asset kinds an item's mapping is drawn from
NumChunks == 2      \* chunks of one response body
NumUnits == 11      \* work units of a scheduling phase
MaxFailures == 1    \* work units of a scheduling phase that end in Err
NumUrls == 3        \* detail-page URLs the index page may list
MaxNumLen == 2      \* characters of the number element of a detail page
MaxTitleLen == 2    \* characters of the title of a detail page
MaxSources == 2     \* audio elements in one section of a detail page

\* parser.rs:21-29, the closed enumeration in iteration order
SONG_TYPES ==
    <<"Live", "Aircheck", "AircheckCheap", "AircheckRetro",
      "AircheckPhono", "MusicBox", "DjKkRemix">>

SongType == {SONG_TYPES[i] : i \in 1..Len(SONG_TYPES)}

\* parser.rs:34-44
file_string(t) ==
    CASE t = "Live" -> "live"
      [] t = "Aircheck" -> "aircheck"
      [] t = "AircheckCheap" -> "aircheck_cheap"
      [] t = "AircheckRetro" -> "aircheck_retro"
      [] t = "AircheckPhono" -> "aircheck_phono"
      [] t = "MusicBox" -> "music_box"
      [] t = "DjKkRemix" -> "dj_kk_remix"

\* The kinds the items of the model may carry: a prefix of the enumeration.
ModelKinds ==
    {SONG_TYPES[i] : i \in 1..(IF MaxKinds < Len(SONG_TYPES) THEN MaxKinds ELSE Len(SONG_TYPES))}

FileNames == {file_string(t) : t \in SongType}

\* The names an item's image would be stored under, image.<ext>.
ImageFileNames == {"image.png", "image.jpg"}

\* What an item directory may hold.
DirEntries == FileNames \cup ImageFileNames

\* song_infos.json before File::create
NoSnapshot == [state |-> "none", content |-> <<>>]

\* The payload of an asset: the chunk sequence of one successful response.
FullPayload == [i \in 1..NumChunks |-> i]

NoFile == [exists |-> FALSE, data |-> <<>>, flushed |-> FALSE]

VARIABLES
    song_file_urls,  \* keys of song_info.song_file_urls
    ds_pc,           \* download_song: "start", "loop", "done"
    dir_created,     \* fs::create_dir_all(&directory) succeeded
    todo,            \* keys the for loop of download_song has not visited
    attempted,       \* kinds download_song_of_type was called for, in call order
    failed,          \* kinds whose download_song_of_type returned Err
    error_occured,   \* downloader.rs:117
    ds_result,       \* "none", "ok", "err": result of download_song
    song_type,       \* argument of the running download_song_of_type
    pc,              \* download_song_of_type: "idle", "create", "request",
                     \*   "stream", "flush", "returned"
    try_counter,     \* downloader.rs:163
    dsot_result,     \* "none", "ok", "err"
    files,           \* the item directory: file name -> file
    stream_pos,      \* chunks the response stream has yielded or lost
    attempt_bad,     \* a chunk read or write failed in the current attempt
    attempt_log,     \* outcome of each attempt of the current call
    mr_try,          \* try_counter of make_request, downloader.rs:290
    mr_log,          \* outcome of each GET of the current make_request
    mr_result,       \* "none", "ok", "err", "panic"
    sched_mode,      \* "none", "buffered" (get_all_song_infos),
                     \*   "buffer_unordered" (download_all_songs)
    num_units,       \* length of the input of the scheduling phase
    unit,            \* work unit -> "pending", "running", "ok", "err"
    next_unit,       \* units stream::iter has handed out
    results,         \* the Vec get_all_song_infos collects
    sched_pc,        \* "idle", "running", "returned"
    max_tries,       \* the value of MAX_TRIES the program is built with
    dl_pc,           \* download(): "start", "discover", "extract",
                     \*   "snapshot_create", "snapshot_write", "download",
                     \*   "done", "failed", "panicked"
    dl_result,       \* "none", "ok", "err": result of download()
    root_dir,        \* fs::create_dir_all(directory) succeeded
    idx_pc,          \* get_song_wiki_urls: "idle", "request", "text",
                     \*   "done", "failed"
    idx_try,         \* try_counter of its make_request
    song_wiki_urls,  \* number of URLs the index page yielded
    info,            \* URL -> state of its get_song_info
    info_results,    \* the Vec get_all_song_infos collects
    song_infos,      \* the URLs of the SongInfos download() keeps
    snapshot,        \* <directory>/song_infos.json
    dl_unit,         \* position in song_infos -> state of its download_song
    doc,             \* ParseSpec: the document handed to parse_document
    parsed,          \* ParseSpec: what parse_document returned
    item_title,      \* PathSpec: item -> title
    item_kind,       \* PathSpec: item -> the key of its song_file_urls
    task             \* PathSpec: item -> "pending", "writing", "done"

songVars ==
    <<song_file_urls, ds_pc, dir_created, todo, attempted, failed,
      error_occured, ds_result, song_type, pc, try_counter, dsot_result,
      files, stream_pos, attempt_bad, attempt_log, mr_try, mr_log, mr_result>>

schedVars == <<sched_mode, num_units, unit, next_unit, results, sched_pc>>

pipeVars ==
    <<max_tries, dl_pc, dl_result, root_dir, idx_pc, idx_try, song_wiki_urls,
      info, info_results, song_infos, snapshot, dl_unit>>

parseVars == <<doc, parsed>>

pathVars == <<item_title, item_kind, task>>

vars == <<songVars, schedVars, pipeVars, parseVars, pathVars>>

\* what the actions of one specification leave alone
notSong == <<schedVars, pipeVars, parseVars, pathVars>>
notSched == <<songVars, pipeVars, parseVars, pathVars>>
notPipe == <<songVars, schedVars, parseVars, pathVars>>
notParse == <<songVars, schedVars, pipeVars, pathVars>>
notPath == <<songVars, schedVars, pipeVars, parseVars>>

dsVars == <<song_file_urls, ds_pc, dir_created, todo, attempted, failed, error_occured, ds_result, song_type>>
mrVars == <<mr_try, mr_log, mr_result>>

FileName == file_string(song_type)

----------------------------------------------------------------------------
(* make_request, downloader.rs:289-325 *)

\* for try_counter in 1..=MAX_TRIES
MrTryRange == 1..MAX_TRIES
\* variant: the retry loop gives up one attempt early
MrIsLastTry_GivesUpEarly(t) == t = MAX_TRIES - 1

\* the match arm MAX_TRIES => return Err(..)
MrIsLastTry(t) == t = MAX_TRIES

\* variant: a success before the last try is retried instead of returned
MrReturnsResponse_OnlyOnLastTry(outcome, t) == outcome = "success" /\ t = MAX_TRIES

\* variant: a response is returned whatever its status
MrReturnsResponse_AnyStatus(outcome, t) == outcome \in {"success", "bad_status"}

\* Ok(response) of send() with response.status().is_success(): return Ok(response)
MrReturnsResponse(outcome, t) == outcome = "success"

----------------------------------------------------------------------------
(* download_song_of_type, downloader.rs:143-224 *)

\* for try_counter in 1..MAX_TRIES
DsotTryRange == 1..(MAX_TRIES - 1)

\* if try_counter == MAX_TRIES { return Err(..) }
DsotIsLastTry(t) == t = MAX_TRIES

\* End of the loop body or a `continue` of the for loop: the next iteration,
\* or Ok(()) of line 223 once the range is exhausted.
DsotContinue ==
    IF try_counter + 1 \in DsotTryRange
    THEN /\ try_counter' = try_counter + 1
         /\ pc' = "create"
         /\ dsot_result' = dsot_result
    ELSE /\ try_counter' = try_counter
         /\ pc' = "returned"
         /\ dsot_result' = "ok"

DsotReturnErr ==
    /\ try_counter' = try_counter
    /\ pc' = "returned"
    /\ dsot_result' = "err"

\* a create that opens an existing file without truncating it
CreatedFile_NoTruncate(old) == [exists |-> TRUE, data |-> old.data, flushed |-> FALSE]

\* the file File::create leaves: created if missing, truncated if not (166)
CreatedFile(old) == [exists |-> TRUE, data |-> <<>>, flushed |-> FALSE]

\* File::create(&filename) succeeds: the file exists and is empty (166-170).
FileCreateOk ==
    /\ pc = "create"
    /\ files' = [files EXCEPT ![FileName] = CreatedFile(@)]
    /\ pc' = "request"
    /\ mr_try' = 1
    /\ mr_log' = <<>>
    /\ mr_result' = "none"
    /\ attempt_bad' = FALSE
    /\ UNCHANGED <<dsVars, try_counter, dsot_result, stream_pos, attempt_log>>
    /\ UNCHANGED notSong

\* File::create fails (171-178).
FileCreateErr ==
    /\ pc = "create"
    /\ attempt_log' = Append(attempt_log, "create_err")
    /\ IF DsotIsLastTry(try_counter) THEN DsotReturnErr ELSE DsotContinue
    /\ UNCHANGED <<dsVars, files, stream_pos, attempt_bad, mrVars>>
    /\ UNCHANGED notSong

\* One iteration of the loop of make_request: one GET and its classification.
\* An Err of make_request leaves download_song_of_type through `?` (181).
MakeRequest(outcome) ==
    /\ pc = "request"
    /\ mr_try \in MrTryRange
    /\ mr_log' = Append(mr_log, outcome)
    /\ IF MrReturnsResponse(outcome, mr_try)
       THEN /\ mr_result' = "ok"
            /\ mr_try' = mr_try
            /\ pc' = "stream"
            /\ stream_pos' = 0
            /\ UNCHANGED <<try_counter, dsot_result, attempt_log>>
       ELSE IF MrIsLastTry(mr_try) /\ outcome # "success"
       THEN /\ mr_result' = "err"
            /\ mr_try' = mr_try
            /\ attempt_log' = Append(attempt_log, "request_err")
            /\ DsotReturnErr
            /\ UNCHANGED stream_pos
       ELSE IF mr_try + 1 \in MrTryRange
       THEN /\ mr_try' = mr_try + 1
            /\ UNCHANGED <<mr_result, pc, stream_pos, try_counter, dsot_result, attempt_log>>
       ELSE \* panic!("MAX_TRIES is not allowed to be 0"), line 324
            /\ mr_result' = "panic"
            /\ mr_try' = mr_try
            /\ pc' = "panicked"
            /\ UNCHANGED <<stream_pos, try_counter, dsot_result, attempt_log>>
    /\ UNCHANGED <<dsVars, files, attempt_bad>>
    /\ UNCHANGED notSong

\* stream.next() yields Ok(chunk) and file.write_all(&chunk) succeeds (183-196).
ChunkOk ==
    /\ pc = "stream"
    /\ stream_pos < NumChunks
    /\ stream_pos' = stream_pos + 1
    /\ files' = [files EXCEPT ![FileName].data = Append(@, stream_pos + 1)]
    /\ UNCHANGED <<dsVars, pc, try_counter, dsot_result, attempt_bad, attempt_log, mrVars>>
    /\ UNCHANGED notSong

\* stream.next() yields Err (186-193). The `continue` is the one of the
\* while loop: the chunk is lost and the stream is polled again; it may go
\* on with the next chunk or be at its end.
ChunkReadErr ==
    /\ pc = "stream"
    /\ stream_pos < NumChunks
    /\ attempt_bad' = TRUE
    /\ IF DsotIsLastTry(try_counter)
       THEN /\ attempt_log' = Append(attempt_log, "chunk_err")
            /\ DsotReturnErr
            /\ UNCHANGED stream_pos
       ELSE /\ stream_pos' \in {stream_pos + 1, NumChunks}
            /\ UNCHANGED <<pc, try_counter, dsot_result, attempt_log>>
    /\ UNCHANGED <<dsVars, files, mrVars>>
    /\ UNCHANGED notSong

\* file.write_all(&chunk) fails (195-205): the chunk is not in the file and
\* the `continue` is again the one of the while loop.
ChunkWriteErr ==
    /\ pc = "stream"
    /\ stream_pos < NumChunks
    /\ attempt_bad' = TRUE
    /\ IF DsotIsLastTry(try_counter)
       THEN /\ attempt_log' = Append(attempt_log, "chunk_err")
            /\ DsotReturnErr
            /\ UNCHANGED stream_pos
       ELSE /\ stream_pos' = stream_pos + 1
            /\ UNCHANGED <<pc, try_counter, dsot_result, attempt_log>>
    /\ UNCHANGED <<dsVars, files, mrVars>>
    /\ UNCHANGED notSong

\* stream.next() yields None: the while loop ends (183).
StreamEnd ==
    /\ pc = "stream"
    /\ stream_pos = NumChunks
    /\ pc' = "flush"
    /\ UNCHANGED <<dsVars, try_counter, dsot_result, files, stream_pos, attempt_bad, attempt_log, mrVars>>
    /\ UNCHANGED notSong

\* file.flush() succeeds (208-211): nothing returns, the loop body ends.
FlushOk ==
    /\ pc = "flush"
    /\ files' = [files EXCEPT ![FileName].flushed = TRUE]
    /\ attempt_log' = Append(attempt_log, IF attempt_bad THEN "chunk_err" ELSE "ok")
    /\ DsotContinue
    /\ UNCHANGED <<dsVars, stream_pos, attempt_bad, mrVars>>
    /\ UNCHANGED notSong

\* file.flush() fails (212-219).
FlushErr ==
    /\ pc = "flush"
    /\ attempt_log' = Append(attempt_log, "flush_err")
    /\ IF DsotIsLastTry(try_counter) THEN DsotReturnErr ELSE DsotContinue
    /\ UNCHANGED <<dsVars, files, stream_pos, attempt_bad, mrVars>>
    /\ UNCHANGED notSong

----------------------------------------------------------------------------
(* download_song, downloader.rs:106-136 *)

dsotVars == <<pc, try_counter, dsot_result, files, stream_pos, attempt_bad, attempt_log, mr_try, mr_log, mr_result>>
\* variant: the loop over the kinds breaks at the first Err
DsLoopDone_StopsOnError(keys, err) == keys = {} \/ err

\* the for loop over song_file_urls.keys() has no key left (118)
DsLoopDone(keys, err) == keys = {}

\* song_file_urls.is_empty(): Err(MissingUrl) (107-112)
DsEmpty ==
    /\ ds_pc = "start"
    /\ song_file_urls = {}
    /\ ds_pc' = "done"
    /\ ds_result' = "err"
    /\ UNCHANGED <<song_file_urls, dir_created, todo, attempted, failed, error_occured, song_type, dsotVars>>
    /\ UNCHANGED notSong

\* fs::create_dir_all(&directory) succeeds (115)
DsCreateDirOk ==
    /\ ds_pc = "start"
    /\ song_file_urls # {}
    /\ dir_created' = TRUE
    /\ todo' = song_file_urls
    /\ ds_pc' = "loop"
    /\ UNCHANGED <<song_file_urls, attempted, failed, error_occured, ds_result, song_type, dsotVars>>
    /\ UNCHANGED notSong

\* fs::create_dir_all(&directory) fails: `?` returns the error (115)
DsCreateDirErr ==
    /\ ds_pc = "start"
    /\ song_file_urls # {}
    /\ ds_pc' = "done"
    /\ ds_result' = "err"
    /\ UNCHANGED <<song_file_urls, dir_created, todo, attempted, failed, error_occured, song_type, dsotVars>>
    /\ UNCHANGED notSong

\* The loop takes a key, in the arbitrary order of HashMap::keys, and calls
\* download_song_of_type (118-121, 149-163).
DsCallSongOfType(k) ==
    /\ ds_pc = "loop"
    /\ pc = "idle"
    /\ ~DsLoopDone(todo, error_occured)
    /\ k \in todo
    /\ todo' = todo \ {k}
    /\ song_type' = k
    /\ attempted' = Append(attempted, k)
    /\ attempt_log' = <<>>
    /\ attempt_bad' = FALSE
    /\ stream_pos' = 0
    /\ mr_try' = 1
    /\ mr_log' = <<>>
    /\ mr_result' = "none"
    /\ try_counter' = 1
    /\ IF 1 \in DsotTryRange
       THEN pc' = "create" /\ dsot_result' = "none"
       ELSE pc' = "returned" /\ dsot_result' = "ok"
    /\ UNCHANGED <<song_file_urls, ds_pc, dir_created, failed, error_occured, ds_result, files>>
    /\ UNCHANGED notSong

\* .is_err() of the returned result sets error_occured (119-125)
DsCollect ==
    /\ ds_pc = "loop"
    /\ pc = "returned"
    /\ pc' = "idle"
    /\ error_occured' = (error_occured \/ dsot_result = "err")
    /\ failed' = IF dsot_result = "err" THEN failed \cup {song_type} ELSE failed
    /\ UNCHANGED <<song_file_urls, ds_pc, dir_created, todo, attempted, ds_result, song_type,
                   try_counter, dsot_result, files, stream_pos, attempt_bad, attempt_log, mrVars>>
    /\ UNCHANGED notSong

\* after the loop (128-135)
DsFinish ==
    /\ ds_pc = "loop"
    /\ pc = "idle"
    /\ DsLoopDone(todo, error_occured)
    /\ ds_pc' = "done"
    /\ ds_result' = IF error_occured THEN "err" ELSE "ok"
    /\ UNCHANGED <<song_file_urls, dir_created, todo, attempted, failed, error_occured, song_type, dsotVars>>
    /\ UNCHANGED notSong

----------------------------------------------------------------------------
(* The two scheduling phases, downloader.rs:85-97 and 228-237:              *)
(* stream::iter(..).map(worker).buffered(CONCURRENT_DOWNLOADS) and          *)
(* .buffer_unordered(CONCURRENT_DOWNLOADS), each driven by collect().       *)
(* A work unit is one call of the worker (get_song_info or download_song);  *)
(* here it starts, runs and completes with Ok or Err.                       *)

Units == 1..num_units

\* units whose result has been handed to collect()
Emitted ==
    IF sched_mode = "buffered"
    THEN {results[j].url : j \in 1..Len(results)}
    ELSE {i \in Units : unit[i] \in {"ok", "err"}}

\* number of futures held by the buffer: started and not yet handed to
\* collect()
InQueue ==
    IF sched_mode = "buffered"
    THEN next_unit - Len(results)
    ELSE Cardinality({i \in Units : unit[i] = "running"})

InFlight == {i \in Units : unit[i] = "running"}

\* results a completing worker may produce within the bounds of the model
WorkerResults ==
    IF Cardinality({i \in Units : unit[i] = "err"}) < MaxFailures
    THEN {"ok", "err"}
    ELSE {"ok"}
\* variant: the buffer admits one future too many
SchedHasRoom_OffByOne(n) == n <= CONCURRENT_DOWNLOADS

\* the buffer takes another future from the stream while it holds fewer
\* than CONCURRENT_DOWNLOADS (92, 234)
SchedHasRoom(n) == n < CONCURRENT_DOWNLOADS
\* variant: results are handed out in completion order
BufferedOut_CompletionOrder(u, r) ==
    {i \in DOMAIN u :
        /\ u[i] \in {"ok", "err"}
        /\ \A j \in 1..Len(r) : r[j].url # i}

\* the unit whose result buffered() may hand out next: the oldest one it
\* holds, once it has completed (234)
BufferedOut(u, r) ==
    {i \in DOMAIN u :
        /\ u[i] \in {"ok", "err"}
        /\ \A j \in 1..Len(r) : r[j].url # i
        /\ \A k \in 1..(i - 1) : \E j \in 1..Len(r) : r[j].url = k}
\* variant: collecting stops at the first Err, as try_collect would
SchedStreamEnded_StopsOnErr(u, n, emitted) ==
    \/ /\ n = Len(u)
       /\ \A i \in DOMAIN u : i \in emitted
    \/ \E i \in DOMAIN u : u[i] = "err"

\* collect() ends when the buffered stream ends: the input is exhausted
\* and the buffer is empty (93-94, 236)
SchedStreamEnded(u, n, emitted) ==
    /\ n = Len(u)
    /\ \A i \in DOMAIN u : i \in emitted

\* the buffer pulls the next unit from stream::iter and starts its future
SchedStart ==
    /\ sched_pc = "running"
    /\ next_unit < num_units
    /\ SchedHasRoom(InQueue)
    /\ next_unit' = next_unit + 1
    /\ unit' = [unit EXCEPT ![next_unit + 1] = "running"]
    /\ UNCHANGED <<sched_mode, num_units, results, sched_pc>>
    /\ UNCHANGED notSched

\* buffered(): a running get_song_info completes; its result waits in the
\* buffer until every earlier unit has been handed out. The buffer polls
\* its futures only after it has filled up from the input.
BufferedComplete(i, r) ==
    /\ sched_pc = "running"
    /\ sched_mode = "buffered"
    /\ next_unit = num_units \/ ~SchedHasRoom(InQueue)
    /\ i \in Units
    /\ unit[i] = "running"
    /\ r \in WorkerResults
    /\ unit' = [unit EXCEPT ![i] = r]
    /\ UNCHANGED <<sched_mode, num_units, next_unit, results, sched_pc>>
    /\ UNCHANGED notSched

\* buffered(): the result of the oldest unit goes to collect()
BufferedYield(i) ==
    /\ sched_pc = "running"
    /\ sched_mode = "buffered"
    /\ i \in BufferedOut(unit, results)
    /\ results' = Append(results, [url |-> i, res |-> unit[i]])
    /\ UNCHANGED <<sched_mode, num_units, unit, next_unit, sched_pc>>
    /\ UNCHANGED notSched

\* buffer_unordered(): a running download_song completes and its result
\* goes to collect() at once; the collected Vec is dropped (93-94)
UnorderedComplete(i, r) ==
    /\ sched_pc = "running"
    /\ sched_mode = "buffer_unordered"
    /\ next_unit = num_units \/ ~SchedHasRoom(InQueue)
    /\ i \in Units
    /\ unit[i] = "running"
    /\ r \in WorkerResults
    /\ unit' = [unit EXCEPT ![i] = r]
    /\ UNCHANGED <<sched_mode, num_units, next_unit, results, sched_pc>>
    /\ UNCHANGED notSched

\* collect() is done: get_all_song_infos returns the Vec,
\* download_all_songs returns Ok(())
SchedReturn ==
    /\ sched_pc = "running"
    /\ SchedStreamEnded(unit, next_unit, Emitted)
    /\ sched_pc' = "returned"
    /\ UNCHANGED <<sched_mode, num_units, unit, next_unit, results>>
    /\ UNCHANGED notSched

----------------------------------------------------------------------------
(* SongInfo::parse_document, parser.rs:70-160 *)
(* A document is reduced to what the selectors of the parser look at:       *)
(* whether the three og: meta properties are there, the inner HTML of the   *)
(* number element (a string of characters, "e2" standing for a character    *)
(* of two bytes), and the src attributes of the audio elements of the       *)
(* infobox and of the music section, in document order. A URL is a sequence *)
(* of pieces: the prefix of the file name, the kind in parentheses, the     *)
(* extension.                                                               *)

\* SongType::url_ending (46-56)
url_ending(t) ==
    CASE t = "Live" -> <<"%28Live%29", ".flac">>
      [] t = "Aircheck" -> <<"%28Aircheck%2C_Hi-Fi%29", ".flac">>
      [] t = "AircheckCheap" -> <<"%28Aircheck%2C_Cheap%29", ".flac">>
      [] t = "AircheckRetro" -> <<"%28Aircheck%2C_Retro%29", ".flac">>
      [] t = "AircheckPhono" -> <<"%28Aircheck%2C_Phono%29", ".flac">>
      [] t = "MusicBox" -> <<"%28Music_Box%29", ".flac">>
      [] t = "DjKkRemix" -> <<"%28DJ_KK_Remix%29", ".flac">>

\* the URL of an audio file of kind t
AudioUrl(stem, t) == <<stem>> \o url_ending(t)

\* the src attributes a small document may hold: two files of each kind and
\* one file that is not a .flac
Urls ==
    {AudioUrl(stem, t) : stem \in {"NH", "NL"}, t \in ModelKinds}
    \cup {<<"NH", "%28Live%29", ".ogg">>}

\* the audio elements of one section, in document order
SectionsUpTo(n) == UNION {[1..m -> Urls] : m \in 0..n}

\* the audio elements of the kinds of S, in the order of the enumeration
SourcesOf(stem, S) ==
    LET kinds == SelectSeq(SONG_TYPES, LAMBDA t : t \in S)
    IN [i \in 1..Len(kinds) |-> AudioUrl(stem, kinds[i])]

NumChars == {"#", "8", "x", "e2"}

\* length of a character in bytes, for the byte index of number_string[1..]
ByteLen(c) == IF c = "e2" THEN 2 ELSE 1

NumberStrings == UNION {[1..n -> NumChars] : n \in 0..MaxNumLen}

Docs ==
    [title : BOOLEAN, url : BOOLEAN, image : BOOLEAN,
     has_number : {TRUE}, number : NumberStrings,
     infobox : SectionsUpTo(1), music : SectionsUpTo(1)]
    \cup
    [title : BOOLEAN, url : BOOLEAN, image : BOOLEAN,
     has_number : {FALSE}, number : {<<>>},
     infobox : SectionsUpTo(1), music : SectionsUpTo(1)]

\* number_string[1..] panics when byte 1 is past the end of the string or
\* inside its first character (87)
SlicePanics(str) == Len(str) = 0 \/ ByteLen(str[1]) > 1

RECURSIVE DecValue(_)
DecValue(str) ==
    IF Len(str) = 0 THEN 0
    ELSE 10 * DecValue(SubSeq(str, 1, Len(str) - 1)) + 8

\* str.parse::<i32>() is Ok (88): digits only, not empty, within i32
IsI32(str) ==
    /\ Len(str) > 0
    /\ \A i \in 1..Len(str) : str[i] = "8"
    /\ DecValue(str) <= 2147483647

\* documents that parse, with up to MaxSources audio elements a section, and
\* documents with every kind in the music section and some in the infobox
AudioDocs ==
    [title : {TRUE}, url : {TRUE}, image : {TRUE},
     has_number : {TRUE}, number : {<<"#", "8">>},
     infobox : SectionsUpTo(MaxSources), music : SectionsUpTo(MaxSources)]
    \cup
    {[title |-> TRUE, url |-> TRUE, image |-> TRUE,
      has_number |-> TRUE, number |-> <<"#", "8">>,
      infobox |-> SourcesOf("NH", S), music |-> SourcesOf("NL", SongType)] : S \in SUBSET SongType}

\* the attribute selector [src$="..."]: the value ends with the pattern
EndsWith(u, e) ==
    /\ Len(u) >= Len(e)
    /\ SubSeq(u, Len(u) - Len(e) + 1, Len(u)) = e

\* html.select(&selector).map(|e| e.attr("src")).next().flatten(): the src
\* of the first audio element of the section that matches, <<>> for None
FirstMatch(section, t) ==
    LET hits == {i \in 1..Len(section) : EndsWith(section[i], url_ending(t))}
    IN IF hits = {} THEN <<>>
       ELSE section[CHOOSE i \in hits : \A j \in hits : i <= j]

\* a parser that looks in the music section first
parse_song_file_url_MusicFirst(d, t) ==
    IF FirstMatch(d.music, t) # <<>> THEN FirstMatch(d.music, t)
    ELSE FirstMatch(d.infobox, t)

\* parse_song_file_url (131-160): the infobox source, else the music one
parse_song_file_url(d, t) ==
    IF FirstMatch(d.infobox, t) # <<>> THEN FirstMatch(d.infobox, t)
    ELSE FirstMatch(d.music, t)

\* parse_all_song_file_urls (119-129)
parse_all_song_file_urls(d) ==
    [t \in {k \in SongType : parse_song_file_url(d, k) # <<>>} |-> parse_song_file_url(d, t)]

\* parse_document (70-100)
parse_document(d) ==
    IF ~d.title THEN [tag |-> "MissingElement", what |-> "title"]
    ELSE IF ~d.url THEN [tag |-> "MissingElement", what |-> "url"]
    ELSE IF ~d.image THEN [tag |-> "MissingElement", what |-> "image"]
    ELSE IF ~d.has_number THEN [tag |-> "MissingElement", what |-> "number"]
    ELSE IF SlicePanics(d.number) THEN [tag |-> "panic", what |-> "number"]
    ELSE IF ~IsI32(Tail(d.number)) THEN [tag |-> "CouldNotParseNumber", what |-> "number"]
    ELSE [tag |-> "Ok", what |-> "SongInfo",
          number |-> DecValue(Tail(d.number)),
          song_file_urls |-> parse_all_song_file_urls(d)]

\* parse_document has not returned
NoParse == [tag |-> "none", what |-> "none"]

\* the ways parse_document can end
ParseOutcomes == {parse_document(d).tag : d \in Docs}

ParseDocument ==
    /\ parsed = NoParse
    /\ parsed' = parse_document(doc)
    /\ UNCHANGED doc
    /\ UNCHANGED notParse

----------------------------------------------------------------------------
(* download, get_song_wiki_urls, get_song_info: downloader.rs:46-83, 228-284 *)

\* the for loop of make_request has an iteration at all (290); if not,
\* the panic of line 324
MrLoopRuns == 1 \in 1..max_tries

\* one iteration of the loop of make_request (290-322)
MrStep(t, outcome) ==
    IF ~MrLoopRuns THEN "panic"
    ELSE IF MrReturnsResponse(outcome, t) THEN "ok"
    ELSE IF MrIsLastTry(t) /\ outcome # "success" THEN "err"
    ELSE IF t + 1 \in MrTryRange THEN "retry"
    ELSE "panic"

InfoRes == [i \in DOMAIN info |-> info[i].res]
InfoStarted == Cardinality({i \in DOMAIN info : info[i].pc # "pending"})
InfoEmitted == {info_results[j].url : j \in 1..Len(info_results)}

ItemsStarted == Cardinality({j \in DOMAIN dl_unit : dl_unit[j] # "pending"})
ItemsRunning == Cardinality({j \in DOMAIN dl_unit : dl_unit[j] = "running"})
ItemsDone == {j \in DOMAIN dl_unit : dl_unit[j] \in {"ok", "err"}}

\* a filter that gives up at the first Err result
FilterOk_StopsAtErr(r) ==
    LET firstErr == {j \in 1..Len(r) : r[j].res # "ok"}
        n == IF firstErr = {} THEN Len(r)
             ELSE (CHOOSE j \in firstErr : \A k \in firstErr : j <= k) - 1
    IN [j \in 1..n |-> r[j].url]

\* .filter_map(|r| r.ok()) (66-68)
FilterOk(r) ==
    LET ok == SelectSeq(r, LAMBDA x : x.res = "ok")
    IN [j \in 1..Len(ok) |-> ok[j].url]

\* return Err(..) of download()
DlFail ==
    /\ dl_pc' = "failed"
    /\ dl_result' = "err"

\* fs::create_dir_all(directory) (47-53)
DlCreateDirOk ==
    /\ dl_pc = "start"
    /\ root_dir' = TRUE
    /\ dl_pc' = "discover"
    /\ idx_pc' = "request"
    /\ idx_try' = 1
    /\ UNCHANGED <<max_tries, dl_result, song_wiki_urls, info, info_results, song_infos, snapshot, dl_unit>>
    /\ UNCHANGED notPipe

DlCreateDirErr ==
    /\ dl_pc = "start"
    /\ DlFail
    /\ UNCHANGED <<max_tries, root_dir, idx_pc, idx_try, song_wiki_urls, info, info_results, song_infos, snapshot, dl_unit>>
    /\ UNCHANGED notPipe

\* get_song_wiki_urls: one iteration of make_request for the index page
\* (243); its Err is returned by the `?` of line 56
IdxRequest(outcome) ==
    /\ dl_pc = "discover"
    /\ idx_pc = "request"
    /\ LET r == MrStep(idx_try, outcome)
       IN CASE r = "ok" ->
                 /\ idx_pc' = "text"
                 /\ UNCHANGED <<idx_try, dl_pc, dl_result>>
            [] r = "err" ->
                 /\ idx_pc' = "failed"
                 /\ DlFail
                 /\ UNCHANGED idx_try
            [] r = "retry" ->
                 /\ idx_try' = idx_try + 1
                 /\ UNCHANGED <<idx_pc, dl_pc, dl_result>>
            [] r = "panic" ->
                 /\ dl_pc' = "panicked"
                 /\ UNCHANGED <<idx_pc, idx_try, dl_result>>
    /\ UNCHANGED <<max_tries, root_dir, song_wiki_urls, info, info_results, song_infos, snapshot, dl_unit>>
    /\ UNCHANGED notPipe

\* response.text() of the index page fails (244-250)
IdxTextErr ==
    /\ dl_pc = "discover"
    /\ idx_pc = "text"
    /\ idx_pc' = "failed"
    /\ DlFail
    /\ UNCHANGED <<max_tries, root_dir, idx_try, song_wiki_urls, info, info_results, song_infos, snapshot, dl_unit>>
    /\ UNCHANGED notPipe

\* the index page is read and its n links are extracted (244-262);
\* download() goes on to get_all_song_infos (63-65)
IdxTextOk(n) ==
    /\ dl_pc = "discover"
    /\ idx_pc = "text"
    /\ idx_pc' = "done"
    /\ song_wiki_urls' = n
    /\ info' = [i \in 1..n |-> [pc |-> "pending", try |-> 1, res |-> "none"]]
    /\ dl_pc' = "extract"
    /\ UNCHANGED <<max_tries, dl_result, root_dir, idx_try, info_results, song_infos, snapshot, dl_unit>>
    /\ UNCHANGED notPipe

\* buffered() takes the next URL and starts its get_song_info (232-234)
InfoStart ==
    /\ dl_pc = "extract"
    /\ InfoStarted < song_wiki_urls
    /\ SchedHasRoom(InfoStarted - Len(info_results))
    /\ info' = [info EXCEPT ![InfoStarted + 1].pc = "request"]
    /\ UNCHANGED <<max_tries, dl_pc, dl_result, root_dir, idx_pc, idx_try, song_wiki_urls, info_results, song_infos, snapshot, dl_unit>>
    /\ UNCHANGED notPipe

\* the buffer polls its futures once it is full or the input is exhausted
InfoPolled ==
    /\ dl_pc = "extract"
    /\ InfoStarted = song_wiki_urls \/ ~SchedHasRoom(InfoStarted - Len(info_results))

\* get_song_info: one iteration of make_request for a detail page (267)
InfoRequest(i, outcome) ==
    /\ InfoPolled
    /\ i \in DOMAIN info
    /\ info[i].pc = "request"
    /\ LET r == MrStep(info[i].try, outcome)
       IN CASE r = "ok" ->
                 /\ info' = [info EXCEPT ![i].pc = "text"]
                 /\ UNCHANGED dl_pc
            [] r = "err" ->
                 /\ info' = [info EXCEPT ![i].pc = "done", ![i].res = "err"]
                 /\ UNCHANGED dl_pc
            [] r = "retry" ->
                 /\ info' = [info EXCEPT ![i].try = @ + 1]
                 /\ UNCHANGED dl_pc
            [] r = "panic" ->
                 /\ dl_pc' = "panicked"
                 /\ UNCHANGED info
    /\ UNCHANGED <<max_tries, dl_result, root_dir, idx_pc, idx_try, song_wiki_urls, info_results, song_infos, snapshot, dl_unit>>
    /\ UNCHANGED notPipe

\* response.text() of a detail page fails (269-275)
InfoTextErr(i) ==
    /\ InfoPolled
    /\ i \in DOMAIN info
    /\ info[i].pc = "text"
    /\ info' = [info EXCEPT ![i].pc = "done", ![i].res = "err"]
    /\ UNCHANGED <<max_tries, dl_pc, dl_result, root_dir, idx_pc, idx_try, song_wiki_urls, info_results, song_infos, snapshot, dl_unit>>
    /\ UNCHANGED notPipe

\* the detail page is read and SongInfo::parse_document ends with tag
\* (269-283); a panic of the parser unwinds through download()
InfoParse(i, tag) ==
    /\ InfoPolled
    /\ i \in DOMAIN info
    /\ info[i].pc = "text"
    /\ tag \in ParseOutcomes
    /\ IF tag = "panic"
       THEN /\ dl_pc' = "panicked"
            /\ UNCHANGED info
       ELSE /\ info' = [info EXCEPT ![i].pc = "done",
                                    ![i].res = IF tag = "Ok" THEN "ok" ELSE "err"]
            /\ UNCHANGED dl_pc
    /\ UNCHANGED <<max_tries, dl_result, root_dir, idx_pc, idx_try, song_wiki_urls, info_results, song_infos, snapshot, dl_unit>>
    /\ UNCHANGED notPipe

\* buffered() hands the result of the oldest URL to collect() (234-236)
InfoYield(i) ==
    /\ dl_pc = "extract"
    /\ i \in BufferedOut(InfoRes, info_results)
    /\ info_results' = Append(info_results, [url |-> i, res |-> info[i].res])
    /\ UNCHANGED <<max_tries, dl_pc, dl_result, root_dir, idx_pc, idx_try, song_wiki_urls, info, song_infos, snapshot, dl_unit>>
    /\ UNCHANGED notPipe

\* a collect() that does not wait for the end of the stream
InfoCollected_BeforeStreamEnd ==
    /\ dl_pc = "extract"
    /\ song_infos' = FilterOk(info_results)
    /\ dl_pc' = "snapshot_create"
    /\ UNCHANGED <<max_tries, dl_result, root_dir, idx_pc, idx_try, song_wiki_urls, info, info_results, snapshot, dl_unit>>
    /\ UNCHANGED notPipe

\* get_all_song_infos returns; the Ok results are kept (63-68)
InfoCollected ==
    /\ dl_pc = "extract"
    /\ SchedStreamEnded(info, InfoStarted, InfoEmitted)
    /\ song_infos' = FilterOk(info_results)
    /\ dl_pc' = "snapshot_create"
    /\ UNCHANGED <<max_tries, dl_result, root_dir, idx_pc, idx_try, song_wiki_urls, info, info_results, snapshot, dl_unit>>
    /\ UNCHANGED notPipe

\* File::create("<directory>/song_infos.json") (74)
SnapshotCreateOk ==
    /\ dl_pc = "snapshot_create"
    /\ snapshot' = [state |-> "created", content |-> <<>>]
    /\ dl_pc' = "snapshot_write"
    /\ UNCHANGED <<max_tries, dl_result, root_dir, idx_pc, idx_try, song_wiki_urls, info, info_results, song_infos, dl_unit>>
    /\ UNCHANGED notPipe

SnapshotCreateErr ==
    /\ dl_pc = "snapshot_create"
    /\ snapshot' = [state |-> "create_failed", content |-> <<>>]
    /\ DlFail
    /\ UNCHANGED <<max_tries, root_dir, idx_pc, idx_try, song_wiki_urls, info, info_results, song_infos, dl_unit>>
    /\ UNCHANGED notPipe

\* serde_json::to_string_pretty(&song_infos) fails (75)
SnapshotSerializeErr ==
    /\ dl_pc = "snapshot_write"
    /\ snapshot' = [state |-> "serialize_failed", content |-> <<>>]
    /\ DlFail
    /\ UNCHANGED <<max_tries, root_dir, idx_pc, idx_try, song_wiki_urls, info, info_results, song_infos, dl_unit>>
    /\ UNCHANGED notPipe

\* a write error that is logged and not returned
SnapshotWriteErr_Ignored ==
    /\ dl_pc = "snapshot_write"
    /\ snapshot' = [state |-> "write_failed", content |-> <<>>]
    /\ dl_unit' = [j \in 1..Len(song_infos) |-> "pending"]
    /\ dl_pc' = "download"
    /\ UNCHANGED <<max_tries, dl_result, root_dir, idx_pc, idx_try, song_wiki_urls, info, info_results, song_infos>>
    /\ UNCHANGED notPipe

\* file.write_all(json.as_bytes()) fails (76)
SnapshotWriteErr ==
    /\ dl_pc = "snapshot_write"
    /\ snapshot' = [state |-> "write_failed", content |-> <<>>]
    /\ DlFail
    /\ UNCHANGED <<max_tries, root_dir, idx_pc, idx_try, song_wiki_urls, info, info_results, song_infos, dl_unit>>
    /\ UNCHANGED notPipe

\* the snapshot is written; download() goes on to download_all_songs (75-79)
SnapshotWriteOk ==
    /\ dl_pc = "snapshot_write"
    /\ snapshot' = [state |-> "written", content |-> song_infos]
    /\ dl_unit' = [j \in 1..Len(song_infos) |-> "pending"]
    /\ dl_pc' = "download"
    /\ UNCHANGED <<max_tries, dl_result, root_dir, idx_pc, idx_try, song_wiki_urls, info, info_results, song_infos>>
    /\ UNCHANGED notPipe

\* buffer_unordered() takes the next SongInfo and starts its download_song (90-92)
ItemStart ==
    /\ dl_pc = "download"
    /\ ItemsStarted < Len(dl_unit)
    /\ SchedHasRoom(ItemsRunning)
    /\ dl_unit' = [dl_unit EXCEPT ![ItemsStarted + 1] = "running"]
    /\ UNCHANGED <<max_tries, dl_pc, dl_result, root_dir, idx_pc, idx_try, song_wiki_urls, info, info_results, song_infos, snapshot>>
    /\ UNCHANGED notPipe

\* a download_song returns r (91)
ItemDone(j, r) ==
    /\ dl_pc = "download"
    /\ ItemsStarted = Len(dl_unit) \/ ~SchedHasRoom(ItemsRunning)
    /\ j \in DOMAIN dl_unit
    /\ dl_unit[j] = "running"
    /\ dl_unit' = [dl_unit EXCEPT ![j] = r]
    /\ UNCHANGED <<max_tries, dl_pc, dl_result, root_dir, idx_pc, idx_try, song_wiki_urls, info, info_results, song_infos, snapshot>>
    /\ UNCHANGED notPipe

\* download_all_songs returns Ok(()) and so does download() (93-96, 79-82)
DlReturnOk ==
    /\ dl_pc = "download"
    /\ SchedStreamEnded(dl_unit, ItemsStarted, ItemsDone)
    /\ dl_pc' = "done"
    /\ dl_result' = "ok"
    /\ UNCHANGED <<max_tries, root_dir, idx_pc, idx_try, song_wiki_urls, info, info_results, song_infos, snapshot, dl_unit>>
    /\ UNCHANGED notPipe

----------------------------------------------------------------------------
(* The paths download_all_songs writes to: parser.rs:105-107,              *)
(* downloader.rs:85-97, 114-126, 163-166                                    *)

TitleChars == {"K", "k", ".", " "}

Titles == UNION {[1..n -> TitleChars] : n \in 1..MaxTitleLen}

\* char::to_lowercase
ToLower(c) == IF c = "K" THEN "k" ELSE c

\* self.title.to_lowercase().replace(' ', "_").replace('.', "") (106)
filelized_title(title) ==
    LET lower == [i \in 1..Len(title) |-> ToLower(title[i])]
        under == [i \in 1..Len(title) |-> IF lower[i] = " " THEN "_" ELSE lower[i]]
    IN SelectSeq(under, LAMBDA c : c # ".")

\* the SongInfos handed to download_all_songs
Items == {1, 2}

TasksStarted == Cardinality({i \in Items : task[i].pc # "pending"})
TasksRunning == Cardinality({i \in Items : task[i].pc \in {"loop", "writing"}})

\* format!("{}/{}", directory, filelized_title) and
\* format!("{}/{}.flac", directory, file_string) (114, 164)
TaskPath(i) == <<filelized_title(item_title[i]), file_string(task[i].cur)>>

\* buffer_unordered() starts download_song of the next item (90-92): the
\* empty mapping returns at once (107-112), else the directory is created
\* and the loop over the keys begins (114-117)
TaskStart(i) ==
    /\ i \in Items
    /\ i = TasksStarted + 1
    /\ SchedHasRoom(TasksRunning)
    /\ task' = [task EXCEPT ![i] =
                  IF item_kind[i] = {}
                  THEN [pc |-> "done", todo |-> {}, cur |-> "Live"]
                  ELSE [pc |-> "loop", todo |-> item_kind[i], cur |-> "Live"]]
    /\ UNCHANGED <<item_title, item_kind>>
    /\ UNCHANGED notPath

\* download_song_of_type opens <directory>/<kind>.flac for writing (164-166)
TaskOpen(i, k) ==
    /\ i \in Items
    /\ task[i].pc = "loop"
    /\ k \in task[i].todo
    /\ task' = [task EXCEPT ![i] = [pc |-> "writing", todo |-> task[i].todo \ {k}, cur |-> k]]
    /\ UNCHANGED <<item_title, item_kind>>
    /\ UNCHANGED notPath

\* download_song_of_type returns and the file is closed (119-125)
TaskClose(i) ==
    /\ i \in Items
    /\ task[i].pc = "writing"
    /\ task' = [task EXCEPT ![i].pc = "loop"]
    /\ UNCHANGED <<item_title, item_kind>>
    /\ UNCHANGED notPath

\* the loop over the keys is over and download_song returns (128-135)
TaskReturn(i) ==
    /\ i \in Items
    /\ task[i].pc = "loop"
    /\ task[i].todo = {}
    /\ task' = [task EXCEPT ![i].pc = "done"]
    /\ UNCHANGED <<item_title, item_kind>>
    /\ UNCHANGED notPath

----------------------------------------------------------------------------
(* The states of the parts a specification does not run *)

SongIdle ==
    /\ song_file_urls = {}
    /\ ds_pc = "start"
    /\ dir_created = FALSE
    /\ todo = {}
    /\ attempted = <<>>
    /\ failed = {}
    /\ error_occured = FALSE
    /\ ds_result = "none"
    /\ song_type = "Live"
    /\ pc = "idle"
    /\ try_counter = 1
    /\ dsot_result = "none"
    /\ files = [f \in DirEntries |-> NoFile]
    /\ stream_pos = 0
    /\ attempt_bad = FALSE
    /\ attempt_log = <<>>
    /\ mr_try = 1
    /\ mr_log = <<>>
    /\ mr_result = "none"

SchedIdle ==
    /\ sched_mode = "none"
    /\ num_units = 0
    /\ unit = <<>>
    /\ next_unit = 0
    /\ results = <<>>
    /\ sched_pc = "idle"

PipeIdle ==
    /\ max_tries = MAX_TRIES
    /\ dl_pc = "idle"
    /\ dl_result = "none"
    /\ root_dir = FALSE
    /\ idx_pc = "idle"
    /\ idx_try = 1
    /\ song_wiki_urls = 0
    /\ info = <<>>
    /\ info_results = <<>>
    /\ song_infos = <<>>
    /\ snapshot = NoSnapshot
    /\ dl_unit = <<>>

ParseIdle ==
    /\ doc = "none"
    /\ parsed = NoParse

PathIdle ==
    /\ item_title = <<>>
    /\ item_kind = <<>>
    /\ task = <<>>

----------------------------------------------------------------------------

Init ==
    /\ song_file_urls \in SUBSET ModelKinds
    /\ ds_pc = "start"
    /\ dir_created = FALSE
    /\ todo = {}
    /\ attempted = <<>>
    /\ failed = {}
    /\ error_occured = FALSE
    /\ ds_result = "none"
    /\ song_type = "Live"
    /\ pc = "idle"
    /\ try_counter = 1
    /\ dsot_result = "none"
    /\ files = [f \in DirEntries |-> NoFile]
    /\ stream_pos = 0
    /\ attempt_bad = FALSE
    /\ attempt_log = <<>>
    /\ mr_try = 1
    /\ mr_log = <<>>
    /\ mr_result = "none"
    /\ SchedIdle
    /\ PipeIdle
    /\ ParseIdle
    /\ PathIdle

Next ==
    \/ DsEmpty
    \/ DsCreateDirOk
    \/ DsCreateDirErr
    \/ \E k \in SongType : DsCallSongOfType(k)
    \/ DsCollect
    \/ DsFinish
    \/ FileCreateOk
    \/ FileCreateErr
    \/ \E outcome \in {"transport_err", "bad_status", "success"} : MakeRequest(outcome)
    \/ ChunkOk
    \/ ChunkReadErr
    \/ ChunkWriteErr
    \/ StreamEnd
    \/ FlushOk
    \/ FlushErr

Spec == Init /\ [][Next]_vars

SchedInit ==
    /\ song_file_urls = {}
    /\ ds_pc = "start"
    /\ dir_created = FALSE
    /\ todo = {}
    /\ attempted = <<>>
    /\ failed = {}
    /\ error_occured = FALSE
    /\ ds_result = "none"
    /\ song_type = "Live"
    /\ pc = "idle"
    /\ try_counter = 1
    /\ dsot_result = "none"
    /\ files = [f \in DirEntries |-> NoFile]
    /\ stream_pos = 0
    /\ attempt_bad = FALSE
    /\ attempt_log = <<>>
    /\ mr_try = 1
    /\ mr_log = <<>>
    /\ mr_result = "none"
    /\ sched_mode \in {"buffered", "buffer_unordered"}
    /\ num_units \in 0..NumUnits
    /\ unit = [i \in 1..num_units |-> "pending"]
    /\ next_unit = 0
    /\ results = <<>>
    /\ sched_pc = "running"
    /\ PipeIdle
    /\ ParseIdle
    /\ PathIdle

SchedNext ==
    \/ SchedStart
    \/ \E i \in 1..NumUnits, r \in {"ok", "err"} : BufferedComplete(i, r)
    \/ \E i \in 1..NumUnits : BufferedYield(i)
    \/ \E i \in 1..NumUnits, r \in {"ok", "err"} : UnorderedComplete(i, r)
    \/ SchedReturn

SchedSpec == SchedInit /\ [][SchedNext]_vars

\* download() is called in a program built with MAX_TRIES = n
PipeInitWith(n) ==
    /\ SongIdle
    /\ SchedIdle
    /\ ParseIdle
    /\ PathIdle
    /\ max_tries = n
    /\ dl_pc = "start"
    /\ dl_result = "none"
    /\ root_dir = FALSE
    /\ idx_pc = "idle"
    /\ idx_try = 1
    /\ song_wiki_urls = 0
    /\ info = <<>>
    /\ info_results = <<>>
    /\ song_infos = <<>>
    /\ snapshot = NoSnapshot
    /\ dl_unit = <<>>

PipeInit == PipeInitWith(MAX_TRIES)

PipeNext ==
    \/ DlCreateDirOk
    \/ DlCreateDirErr
    \/ \E outcome \in {"transport_err", "bad_status", "success"} : IdxRequest(outcome)
    \/ IdxTextErr
    \/ \E n \in 0..NumUrls : IdxTextOk(n)
    \/ InfoStart
    \/ \E i \in 1..NumUrls, outcome \in {"transport_err", "bad_status", "success"} : InfoRequest(i, outcome)
    \/ \E i \in 1..NumUrls : InfoTextErr(i)
    \/ \E i \in 1..NumUrls, tag \in ParseOutcomes : InfoParse(i, tag)
    \/ \E i \in 1..NumUrls : InfoYield(i)
    \/ InfoCollected
    \/ SnapshotCreateOk
    \/ SnapshotCreateErr
    \/ SnapshotSerializeErr
    \/ SnapshotWriteErr
    \/ SnapshotWriteOk
    \/ ItemStart
    \/ \E j \in 1..NumUrls, r \in {"ok", "err"} : ItemDone(j, r)
    \/ DlReturnOk

PipeSpec == PipeInit /\ [][PipeNext]_vars

\* every operation download() waits for returns: a step that can be taken
\* is taken
PipeFairSpec == PipeInit /\ [][PipeNext]_vars /\ WF_vars(PipeNext)

ConfigInit == \E n \in {0, MAX_TRIES} : PipeInitWith(n)

ConfigSpec == ConfigInit /\ [][PipeNext]_vars

ParseInit ==
    /\ SongIdle
    /\ SchedIdle
    /\ PipeIdle
    /\ PathIdle
    /\ doc \in Docs
    /\ parsed = NoParse

ParseNext == ParseDocument

ParseSpec == ParseInit /\ [][ParseNext]_vars

AudioInit ==
    /\ SongIdle
    /\ SchedIdle
    /\ PipeIdle
    /\ PathIdle
    /\ doc \in AudioDocs
    /\ parsed = NoParse

AudioNext == ParseDocument

AudioSpec == AudioInit /\ [][AudioNext]_vars

\* download_all_songs is called with two SongInfos of different titles
PathInit ==
    /\ SongIdle
    /\ SchedIdle
    /\ PipeIdle
    /\ ParseIdle
    /\ item_title \in [Items -> Titles]
    /\ \A a, b \in Items : a # b => item_title[a] # item_title[b]
    /\ item_kind \in [Items -> SUBSET ModelKinds]
    /\ task = [i \in Items |-> [pc |-> "pending", todo |-> {}, cur |-> "Live"]]

PathNext ==
    \/ \E i \in Items : TaskStart(i)
    \/ \E i \in Items, k \in ModelKinds : TaskOpen(i, k)
    \/ \E i \in Items : TaskClose(i)
    \/ \E i \in Items : TaskReturn(i)

PathSpec == PathInit /\ [][PathNext]_vars

----------------------------------------------------------------------------
(* Properties of download_song_of_type and make_request, under Spec *)

DestFile == files[FileName]

LocalFailures == {"create_err", "chunk_err", "flush_err"}

\* C1: after download_song_of_type has returned Err for an asset, the
\* destination file <item dir>/<kind>.flac does not exist.
C1_NoFileAfterFailure ==
    (pc = "returned" /\ dsot_result = "err") => ~DestFile.exists

\* C2: whenever download_song_of_type returns Ok for an asset, the
\* destination file holds exactly the complete chunk sequence of one
\* successful response, in order, and has been flushed.
C2_SuccessMeansCompleteFile ==
    (pc = "returned" /\ dsot_result = "ok") =>
        /\ DestFile.exists
        /\ DestFile.data = FullPayload
        /\ DestFile.flushed

\* C3: make_request never issues more than MAX_TRIES GETs, and when every
\* attempt fails (transport error or non-success status, in any mix) it has
\* issued exactly MAX_TRIES GETs and returns an error, never a response.
C3_RetryExhaustion ==
    /\ Len(mr_log) <= MAX_TRIES
    /\ (mr_result # "none" /\ \A i \in 1..Len(mr_log) : mr_log[i] # "success") =>
           (Len(mr_log) = MAX_TRIES /\ mr_result = "err")
    /\ mr_result = "err" =>
           (Len(mr_log) = MAX_TRIES /\ \A i \in 1..Len(mr_log) : mr_log[i] # "success")

\* make_request has returned an error after a mix of transport errors and
\* non-success statuses
C3_Witness ==
    /\ mr_result = "err"
    /\ \E i, j \in 1..Len(mr_log) : mr_log[i] = "transport_err" /\ mr_log[j] = "bad_status"

\* C4: when attempt k+1 of make_request gets a success status after k < N
\* failed attempts, make_request returns that response and the GET was
\* issued exactly k+1 times: a success is the last entry of the call's GET
\* log and the call is over.
C4_RetrySuccess ==
    \A i \in 1..Len(mr_log) :
        mr_log[i] = "success" =>
            /\ i = Len(mr_log)
            /\ i <= MAX_TRIES
            /\ mr_result = "ok"
            /\ pc # "request"

\* two failed attempts, then a success on the last attempt of the budget
C4_Witness ==
    /\ mr_result = "ok"
    /\ Len(mr_log) = MAX_TRIES
    /\ mr_log[1] = "transport_err"
    /\ mr_log[2] = "bad_status"

\* C5: when an attempt of download_song_of_type succeeds (request, every
\* chunk and the flush), the call returns at once: the successful attempt is
\* the last attempt of the call.
C5_ReturnsAfterSuccess ==
    \A i \in 1..Len(attempt_log) :
        attempt_log[i] = "ok" => (i = Len(attempt_log) /\ pc \in {"returned", "idle"})

\* C6: if every attempt of download_song_of_type fails locally (file
\* creation, chunk read, chunk write or flush), the call makes exactly
\* MAX_TRIES attempts and returns Err.
C6_LocalFailuresExhaust ==
    (/\ pc = "returned"
     /\ attempt_log # <<>>
     /\ \A i \in 1..Len(attempt_log) : attempt_log[i] \in LocalFailures) =>
        (Len(attempt_log) = MAX_TRIES /\ dsot_result = "err")

----------------------------------------------------------------------------
(* Properties of the scheduling phases, under SchedSpec *)

\* C8: in both scheduling phases the number of worker invocations that have
\* started and not yet finished is at most CONCURRENT_DOWNLOADS.
C8_BoundedConcurrency ==
    Cardinality(InFlight) <= CONCURRENT_DOWNLOADS

\* the limit is reached again after a completed unit has been replaced
C8_Witness ==
    /\ Cardinality(InFlight) = CONCURRENT_DOWNLOADS
    /\ next_unit > CONCURRENT_DOWNLOADS

\* C9: get_all_song_infos returns exactly one result per input URL, in
\* input order: result i is the outcome of get_song_info on URL i.
C9_ResultsInInputOrder ==
    sched_mode = "buffered" =>
        /\ \A j \in 1..Len(results) : results[j] = [url |-> j, res |-> unit[j]]
        /\ sched_pc = "returned" => Len(results) = num_units

\* get_all_song_infos has returned the results of more URLs than the
\* buffer holds, a failed one among them
C9_Witness ==
    /\ sched_mode = "buffered"
    /\ sched_pc = "returned"
    /\ num_units > CONCURRENT_DOWNLOADS
    /\ \E j \in 1..Len(results) : results[j].res = "err"

\* C10: download_all_songs returns only after download_song has been
\* started for every item and each has reached a terminal result.
C10_WaitsForEveryItem ==
    (sched_mode = "buffer_unordered" /\ sched_pc = "returned") =>
        /\ next_unit = num_units
        /\ \A i \in Units : unit[i] \in {"ok", "err"}

\* download_all_songs has returned; an item failed and the item that had
\* to wait for a free slot was downloaded all the same
C10_Witness ==
    /\ sched_mode = "buffer_unordered"
    /\ sched_pc = "returned"
    /\ num_units > CONCURRENT_DOWNLOADS
    /\ \E i \in 1..CONCURRENT_DOWNLOADS : unit[i] = "err"
    /\ unit[num_units] = "ok"

----------------------------------------------------------------------------
(* download(): the stages of a run *)

InfoSettled == \A i \in 1..song_wiki_urls : info[i].res \in {"ok", "err"}
SnapshotFailed == snapshot.state \in {"create_failed", "serialize_failed", "write_failed"}
OkUrls == {i \in 1..song_wiki_urls : info[i].res = "ok"}

\* C11: the stages of download() are barriers: no detail page is fetched
\* before the index page has been read, the snapshot file is touched only
\* after every detail page has reached a result, no download_song starts
\* before the snapshot is written, and download() returns Ok only after
\* every download_song has returned.
C11_StageBarriers ==
    /\ InfoStarted > 0 => idx_pc = "done"
    /\ snapshot.state # "none" => InfoSettled /\ Len(info_results) = song_wiki_urls
    /\ ItemsStarted > 0 => snapshot.state = "written"
    /\ dl_result = "ok" =>
          /\ Len(dl_unit) = Len(song_infos)
          /\ \A j \in DOMAIN dl_unit : dl_unit[j] \in {"ok", "err"}

C11_Witness ==
    /\ dl_result = "ok"
    /\ Len(dl_unit) >= 2
    /\ \E i \in DOMAIN info : info[i].res = "err"

\* C12: once the index page has been read, no failure of a single detail
\* page or download_song aborts the run: download() does not end in a panic,
\* and it returns an error only when the snapshot could not be written.
C12_NeverAbortedByItemFailure ==
    idx_pc = "done" =>
        /\ dl_pc # "panicked"
        /\ dl_pc = "failed" => SnapshotFailed

\* C13: a failed discovery or a failed snapshot makes download() return an
\* error with no download_song started; after a failed discovery no detail
\* page was fetched and no snapshot file was created.
C13_FatalStages ==
    /\ (idx_pc = "failed" \/ SnapshotFailed) =>
          /\ dl_result = "err"
          /\ ItemsStarted = 0
          /\ dl_unit = <<>>
    /\ idx_pc = "failed" =>
          /\ InfoStarted = 0
          /\ info = <<>>
          /\ snapshot.state = "none"

C13_Witness ==
    /\ snapshot.state = "write_failed"
    /\ dl_result = "err"
    /\ Len(song_infos) >= 2

\* C14: the snapshot that is written, and the list handed to
\* download_all_songs, hold exactly the URLs whose get_song_info returned Ok,
\* each once and in the order of the index page.
C14_SnapshotIsOkItemsInOrder ==
    snapshot.state = "written" =>
        /\ snapshot.content = song_infos
        /\ Len(dl_unit) = Len(song_infos)
        /\ Len(song_infos) = Cardinality(OkUrls)
        /\ {song_infos[j] : j \in 1..Len(song_infos)} = OkUrls
        /\ \A j, k \in 1..Len(song_infos) : j < k => song_infos[j] < song_infos[k]

C14_Witness ==
    /\ snapshot.state = "written"
    /\ song_wiki_urls = 3
    /\ info[1].res = "ok"
    /\ info[2].res = "err"
    /\ info[3].res = "ok"

\* C18: a program built with a retry budget of 0 touches nothing: download()
\* neither creates the output directory nor panics.
C18_ZeroBudgetRejectedAtStartup ==
    max_tries = 0 =>
        /\ ~root_dir
        /\ dl_pc # "panicked"

----------------------------------------------------------------------------
(* download_song: the empty mapping, the retried file, the image *)

\* C15: download_song on an empty song_file_urls returns Ok, reports no
\* failed kind and issues no request.
C15_EmptyMappingIsNoOp ==
    (ds_pc = "done" /\ song_file_urls = {}) =>
        /\ ds_result = "ok"
        /\ failed = {}
        /\ attempted = <<>>
        /\ mr_log = <<>>

\* C16: every attempt of download_song_of_type starts on an empty file: after
\* File::create the file holds nothing, and while the attempt streams the
\* file holds only chunks of this attempt, in the order they were read.
C16_AttemptStartsOnEmptyFile ==
    /\ pc = "request" => DestFile.data = <<>>
    /\ pc \in {"stream", "flush"} =>
          /\ \A j \in 1..Len(DestFile.data) : DestFile.data[j] <= stream_pos
          /\ \A j, k \in 1..Len(DestFile.data) : j < k => DestFile.data[j] < DestFile.data[k]

C16_Witness ==
    /\ try_counter = 2
    /\ attempt_log = <<"chunk_err">>
    /\ pc = "stream"
    /\ stream_pos = 1
    /\ DestFile.data = <<1>>

\* C19: after a download_song that returned Ok the image file of the item
\* exists in the item directory.
C19_ImageDownloaded ==
    (ds_pc = "done" /\ ds_result = "ok") =>
        \E f \in ImageFileNames : files[f].exists

----------------------------------------------------------------------------
(* The paths of concurrent downloads, the fields parse_document requires *)

\* C17: no two download_song tasks that run at the same time write to the
\* same path (the directory of filelized_title and the file name of the
\* kind), and different kinds have different file names.
C17_NoSharedPath ==
    /\ \A a, b \in Items :
          (a # b /\ task[a].pc = "writing" /\ task[b].pc = "writing") => TaskPath(a) # TaskPath(b)
    /\ \A k1, k2 \in SongType : k1 # k2 => file_string(k1) # file_string(k2)

ValidOrdinal(d) == d.has_number /\ ~SlicePanics(d.number) /\ IsI32(Tail(d.number))

\* C20: parse_document returns a missing-element error exactly when the
\* title, the canonical URL or the number element is missing, and a document
\* with these three and a valid number yields a SongInfo, with or without an
\* image and with or without audio sources.
C20_RequiredFieldsOnly ==
    parsed # NoParse =>
        /\ parsed.tag = "MissingElement" <=> (~doc.title \/ ~doc.url \/ ~doc.has_number)
        /\ (doc.title /\ doc.url /\ ValidOrdinal(doc)) => parsed.tag = "Ok"

----------------------------------------------------------------------------
(* The audio sources parse_document finds *)

\* the src attributes of a document that match the pattern of kind t
InfoboxHits(t) == {doc.infobox[i] : i \in {j \in 1..Len(doc.infobox) : EndsWith(doc.infobox[j], url_ending(t))}}
MusicHits(t) == {doc.music[i] : i \in {j \in 1..Len(doc.music) : EndsWith(doc.music[j], url_ending(t))}}

\* C21: in a parsed SongInfo a kind is a key of song_file_urls exactly when
\* the infobox or the music section has an audio source that ends with the
\* kind's pattern; the value is such a source, one of the infobox when the
\* infobox has one; no key is outside the enumeration, and a document with a
\* source for each of the seven kinds gives seven entries.
C21_KeysAreMatchingSources ==
    parsed.tag = "Ok" =>
        /\ DOMAIN parsed.song_file_urls \subseteq SongType
        /\ \A t \in SongType :
              /\ t \in DOMAIN parsed.song_file_urls <=> (InfoboxHits(t) \cup MusicHits(t)) # {}
              /\ t \in DOMAIN parsed.song_file_urls =>
                    IF InfoboxHits(t) # {}
                    THEN parsed.song_file_urls[t] \in InfoboxHits(t)
                    ELSE parsed.song_file_urls[t] \in MusicHits(t)
        /\ (\A t \in SongType : (InfoboxHits(t) \cup MusicHits(t)) # {}) =>
              Cardinality(DOMAIN parsed.song_file_urls) = 7

\* a document with all seven kinds, Live both in the infobox and in the
\* music section, has been parsed
C21_Witness ==
    /\ parsed.tag = "Ok"
    /\ Cardinality(DOMAIN parsed.song_file_urls) = 7
    /\ InfoboxHits("Live") # {}
    /\ MusicHits("Live") # {}
    /\ InfoboxHits("Live") # MusicHits("Live")
    /\ InfoboxHits("MusicBox") = {}

----------------------------------------------------------------------------
(* download_song_of_type after a chunk failure *)

\* C22: once a chunk read or a chunk write has failed in an attempt that is
\* not the last one, the attempt is abandoned: no further chunk of the same
\* response is written to the file.
C22_AbandonedOnChunkFailure ==
    [][(pc = "stream" /\ attempt_bad) => files'[FileName].data = files[FileName].data]_vars

----------------------------------------------------------------------------
(* get_song_wiki_urls and get_song_info: the body of the response *)

\* C23: a document fetch fails only after MAX_TRIES failed attempts: when
\* get_song_wiki_urls returns an error, or get_song_info returns the error
\* of reading the body, the attempt counter of the fetch has reached
\* MAX_TRIES.
C23_BodyReadIsRetried ==
    [][/\ idx_pc' = "failed" => idx_try' = MAX_TRIES
       /\ \A i \in 1..NumUrls : InfoTextErr(i) => info[i].try = MAX_TRIES]_vars

----------------------------------------------------------------------------
(* download(): termination *)

\* C24: when every operation returns, every call of download() ends with Ok
\* or with Err.
C24_EventuallyTerminal == <>(dl_pc \in {"done", "failed"})

----------------------------------------------------------------------------
(* make_request: the response handed to the caller *)

LastGet == IF mr_log = <<>> THEN "none" ELSE mr_log[Len(mr_log)]

\* C25: make_request returns Ok only for a response with a success status:
\* when it has returned Ok, and whenever download_song_of_type reads the
\* stream of a response or has bytes of it in the file, the last GET of the
\* call got a success status.
C25_OkOnlyForSuccessStatus ==
    /\ mr_result = "ok" => LastGet = "success"
    /\ pc \in {"stream", "flush"} => (mr_result = "ok" /\ LastGet = "success")
    /\ DestFile.data # <<>> => LastGet = "success"

\* a response was handed out after a non-success status was retried, and
\* bytes of it are in the file
C25_Witness ==
    /\ mr_result = "ok"
    /\ \E i \in 1..Len(mr_log) : mr_log[i] = "bad_status"
    /\ DestFile.data # <<>>

====
